---------------------------- MODULE Spec2Model ----------------------------
(***************************************************************************)
(* Model of the TWAMP latency daemon (src/twamp_daemon.py) and of the      *)
(* TWAMP Light reflector (src/twamp_reflector.py).                         *)
(*                                                                         *)
(* A run starts at one of the program's entry points (variable entry):     *)
(*   "main"                   the daemon's main()                          *)
(*   "reflector"              the reflector's main()                       *)
(*   "codec"                  calls of read_nexthop, write_nexthop_latency *)
(*                            and mark_nexthop_failed on a mapped region   *)
(*   "measure_twamp_light"    one call of measure_twamp_light              *)
(*                                                                         *)
(* Python integers are unbounded; a value is modelled as the sequence of   *)
(* its 16-bit limbs, most significant first, without leading zero limbs    *)
(* (zero is << >>), so that 32- and 64-bit fields keep their width.        *)
(***************************************************************************)
EXTENDS Integers, Sequences, FiniteSets, TLC

\* ------------------------------------------------------------------ bounds
\* Number of entry slots of the mapped file (the real file has 1024).
NumSlots == 2
\* Largest packet count of a burst (the daemon accepts 1..100).
MaxBurst == 3
\* Writes of the external routing process in one run.
MaxExtWrites == 1
\* Datagrams the reflector handles in one run.
MaxReflected == 2

\* ------------------------------------------------------- program constants
LockSize == 40
HeaderRest == 12
EntrySize == 24
MinProbeLen == 20
RecvBufSize == 1024
MinCycle == 10
MinPackets == 1
MaxPackets == 100

Min(a, b) == IF a < b THEN a ELSE b

\* --------------------------------------------------------------- integers
RECURSIVE Strip(_)
Strip(v) == IF v # << >> /\ Head(v) = 0 THEN Strip(Tail(v)) ELSE v

\* The Python integer n, for 0 <= n < 65536.
Num(n) == IF n = 0 THEN << >> ELSE <<n>>

\* 0xFFFFFFFF
UINT32_MAX == <<65535, 65535>>

\* v as a Python integer the model can count with (v < 2^31).
ToNat(v) ==
    LET s == Strip(v)
    IN  IF s = << >> THEN 0
        ELSE IF Len(s) = 1 THEN s[1]
        ELSE s[1] * 65536 + s[2]

Widen(v, n) ==
    [j \in 1..n |-> IF j <= n - Len(v) THEN 0 ELSE v[j - (n - Len(v))]]

\* ----------------------------------------------------------------- struct
\* Standard size of one format character.
FmtSize(c) ==
    CASE c = "B" -> 1
      [] c = "H" -> 2
      [] c = "I" -> 4
      [] c = "Q" -> 8

RECURSIVE calcsize(_)
calcsize(fmt) == IF fmt = << >> THEN 0 ELSE FmtSize(Head(fmt)) + calcsize(Tail(fmt))

\* Whether the integer v fits an unsigned field of n bytes.
Fits(v, n) ==
    LET s == Strip(v)
    IN  IF n = 1 THEN s = << >> \/ (Len(s) = 1 /\ s[1] < 256)
        ELSE Len(s) * 2 <= n

\* The n bytes of v, big-endian.
ToBytesBE(v, n) ==
    LET s == Strip(v)
    IN  IF n = 1 THEN <<IF s = << >> THEN 0 ELSE s[1]>>
        ELSE LET w == Widen(s, n \div 2)
             IN  [j \in 1..n |-> IF j % 2 = 1 THEN w[(j + 1) \div 2] \div 256
                                 ELSE w[j \div 2] % 256]

\* The integer whose big-endian bytes are bs.
FromBytesBE(bs) ==
    IF Len(bs) = 1 THEN Strip(<<bs[1]>>)
    ELSE Strip([j \in 1..(Len(bs) \div 2) |-> bs[2 * j - 1] * 256 + bs[2 * j]])

Reverse(s) == [j \in 1..Len(s) |-> s[Len(s) + 1 - j]]

\* Bytes of one field in byte order order ("big" or "little").
FieldBytes(order, v, n) ==
    IF order = "big" THEN ToBytesBE(v, n) ELSE Reverse(ToBytesBE(v, n))

FieldValue(order, bs) ==
    IF order = "big" THEN FromBytesBE(bs) ELSE FromBytesBE(Reverse(bs))

Raised(what) == [raised |-> TRUE, exc |-> what, value |-> << >>]
Returned(v) == [raised |-> FALSE, exc |-> "", value |-> v]

RECURSIVE PackFields(_, _, _)
PackFields(order, fmt, args) ==
    IF fmt = << >> THEN << >>
    ELSE FieldBytes(order, Head(args), FmtSize(Head(fmt)))
         \o PackFields(order, Tail(fmt), Tail(args))

\* struct.pack: one argument per format character, each in range.
struct_pack(order, fmt, args) ==
    IF Len(args) # Len(fmt) THEN Raised("struct.error")
    ELSE IF \E j \in 1..Len(fmt) : ~Fits(args[j], FmtSize(fmt[j]))
         THEN Raised("struct.error")
         ELSE Returned(PackFields(order, fmt, args))

RECURSIVE UnpackFields(_, _, _)
UnpackFields(order, fmt, data) ==
    IF fmt = << >> THEN << >>
    ELSE LET n == FmtSize(Head(fmt))
         IN  <<FieldValue(order, SubSeq(data, 1, n))>>
             \o UnpackFields(order, Tail(fmt), SubSeq(data, n + 1, Len(data)))

\* struct.unpack: the buffer must have exactly the size of the format.
struct_unpack(order, fmt, data) ==
    IF Len(data) # calcsize(fmt) THEN Raised("struct.error")
    ELSE Returned(UnpackFields(order, fmt, data))

\* ----------------------------------------------------------- shared region
\* shm[a:b] of Python, on offsets counted from 0.
Slice(shm, a, b) == SubSeq(shm, a + 1, Min(b, Len(shm)))

\* The format '!IBBHIQ' of an entry.
EntryFmt == <<"I", "B", "B", "H", "I", "Q">>

EntryOffset(index) == (LockSize + HeaderRest) + index * EntrySize

read_nexthop_count(order, shm) ==
    ToNat(struct_unpack(order, <<"I">>, Slice(shm, LockSize, LockSize + 4)).value[1])

\* read_nexthop: the slot is unpacked with '!IBBHIQ' and the values are bound
\* to seven names.
read_nexthop(shm, index) ==
    LET data == Slice(shm, EntryOffset(index), EntryOffset(index) + EntrySize)
        u == struct_unpack("big", EntryFmt, data)
    IN  IF u.raised THEN u
        ELSE IF Len(u.value) # 7 THEN Raised("ValueError")
        ELSE Returned([addr |-> u.value[1], active |-> u.value[2],
                       measured |-> u.value[3], latency_ms |-> u.value[6],
                       last_updated |-> u.value[7]])

\* shm[a:b] = data: an mmap slice takes only data of its own length.
SliceAssign(shm, a, b, data) ==
    IF Len(data) # Len(Slice(shm, a, b)) THEN Raised("IndexError")
    ELSE Returned([o \in 1..Len(shm) |->
                     IF o > a /\ o <= b THEN data[o - a] ELSE shm[o]])

\* A writer that skips the 12 bytes after the lock and stores without reading
\* the entry first.
write_nexthop_latency_from_lock(shm, index, latency_ms, now) ==
    SliceAssign(shm, LockSize + index * EntrySize,
                LockSize + index * EntrySize + EntrySize,
                <<0, 0, 0, 0, 1, 1, 0, 0>> \o ToBytesBE(latency_ms, 4)
                \o <<0, 0, 0, 0>> \o ToBytesBE(now, 8))

\* write_nexthop_latency at time now: the region afterwards, or the exception.
write_nexthop_latency(shm, index, latency_ms, now) ==
    LET nh == read_nexthop(shm, index)
    IN  IF nh.raised THEN nh
        ELSE LET data == struct_pack("big", EntryFmt,
                            <<nh.value.addr, nh.value.active, Num(1), Num(0),
                              Num(0), latency_ms, now>>)
             IN  IF data.raised THEN data
                 ELSE SliceAssign(shm, EntryOffset(index),
                                  EntryOffset(index) + EntrySize, data.value)

\* A writer that stores a failed entry without reading the entry first, so that
\* addr and active are stored as zero.
mark_nexthop_failed_blind(shm, index) ==
    SliceAssign(shm, EntryOffset(index), EntryOffset(index) + EntrySize,
                <<0, 0, 0, 0, 0, 0, 0, 0>> \o ToBytesBE(UINT32_MAX, 4)
                \o <<0, 0, 0, 0, 0, 0, 0, 0, 0, 0, 0, 0>>)

mark_nexthop_failed(shm, index) ==
    LET nh == read_nexthop(shm, index)
    IN  IF nh.raised THEN nh
        ELSE LET data == struct_pack("big", EntryFmt,
                            <<nh.value.addr, nh.value.active, Num(0), Num(0),
                              Num(0), UINT32_MAX, nh.value.last_updated>>)
             IN  IF data.raised THEN data
                 ELSE SliceAssign(shm, EntryOffset(index),
                                  EntryOffset(index) + EntrySize, data.value)

\* ------------------------------------------------------------ environment
\* Next-hop addresses, as the integers read_nexthop returns (10.0.0.1, 10.0.0.2).
Addrs == {<<2560, 1>>, <<2560, 2>>}

\* ip_to_string: the dotted quad of a 32-bit integer, as its four octets.
ip_to_string(ip_int) == struct_pack("big", <<"I">>, <<ip_int>>).value

Hosts == {ip_to_string(a) : a \in Addrs}

\* Values of int(time.time()).
Times == {<<26000, 5>>}

\* Latencies handed to write_nexthop_latency by a direct caller.
Latencies == {Num(7), UINT32_MAX}

\* Round-trip times of one exchange, in milliseconds.
RttSamples == {1, 4}

\* Command lines of the daemon: -c and -p.
ArgCycles == {MinCycle - 1, MinCycle}
ArgPackets == {MinPackets - 1, MinPackets + 1, MaxPackets + 1}

\* One NexthopEntry as the routing process lays it out (the C struct of the
\* ctypes declaration): addr in network byte order, the other integers in
\* host order, last_updated aligned to 8 bytes.
NexthopEntry(order, addr, active, measured, latency_ms, last_updated) ==
    ToBytesBE(addr, 4) \o <<active, measured, 0, 0>>
    \o FieldBytes(order, latency_ms, 4) \o <<0, 0, 0, 0>>
    \o FieldBytes(order, last_updated, 8)

\* Entries the routing process stores.
EntryImages(order) ==
    << NexthopEntry(order, <<2560, 1>>, 1, 0, UINT32_MAX, << >>),
       NexthopEntry(order, <<2560, 2>>, 0, 1, Num(5), <<26000, 1>>),
       NexthopEntry(order, <<2560, 2>>, 1, 1, Num(5), <<26000, 1>>) >>

EntryPool(order) == {EntryImages(order)[k] : k \in 1..3}

\* The 40 bytes of the routing process's mutex.
LockBytes == [o \in 1..LockSize |-> (o * 7) % 256]

RECURSIVE Flatten(_)
Flatten(ss) == IF ss = << >> THEN << >> ELSE Head(ss) \o Flatten(Tail(ss))

\* TwampShm: lock, nh_count, sequence, padding, nexthops.
TwampShm(order, nh_count, sequence, nexthops) ==
    LockBytes \o FieldBytes(order, Num(nh_count), 4)
    \o FieldBytes(order, Num(sequence), 4) \o <<0, 0, 0, 0>>
    \o Flatten(nexthops)

\* The tables main() finds: any count, its entries the pool's in turn.
MainRegions(order) ==
    { TwampShm(order, c, 3, [j \in 1..NumSlots |-> EntryImages(order)[((j - 1) % 3) + 1]]) :
        c \in 0..NumSlots }

Regions(order) ==
    { TwampShm(order, c, 3, n) :
        c \in 0..NumSlots, n \in [1..NumSlots -> EntryPool(order)] }

\* ------------------------------------------------------------------ state
VARIABLES
    entry,          \* the entry point this run started at
    order,          \* the host's byte order
    region,         \* the bytes of the mapped file
    extWrites,      \* writes of the routing process so far
    lastCall,       \* the last direct call of a codec function
    live,           \* addresses at which a reflector answers
    pc,             \* the daemon's position in main / run_measurement_cycle
    running,        \* the global running of the process
    stopAt,         \* what the program had done when the signal was delivered
    args,           \* args.cycle and args.packets
    shmExists,      \* whether the shared-memory file can be opened
    count,          \* run_measurement_cycle: count
    idx,            \* run_measurement_cycle: i
    measured_count, \* run_measurement_cycle: measured_count
    probed,         \* indexes a burst was started for in this cycle
    answered,       \* indexes whose burst returned a latency in this cycle
    cycleRegion,    \* the region as it was when this cycle read the count
    sleeps,         \* main: position in the sleep loop
    exc,            \* the exception that is propagating, "" when none
    exitCode,       \* the process's exit status, -1 while it runs
    closes,         \* calls of shm_map.close() / sock.close() in finally
    bpc,            \* measure_twamp_light: position
    btarget,        \* measure_twamp_light: target_ip
    bcount,         \* measure_twamp_light: count
    bi,             \* measure_twamp_light: i
    rtts,           \* measure_twamp_light: rtts
    sentSeqs,       \* sequence numbers sent in this burst, in order
    pending,        \* sequence numbers whose echo can still arrive
    echoOf,         \* for each sample, the sequence number of the echo taken
    histSum,        \* sum of the round-trip times the socket delivered
    histN,          \* number of datagrams the socket delivered
    lost,           \* sequence numbers whose wait ended on the timeout
    bret,           \* measure_twamp_light: the returned value
    packet_count,   \* reflector: packet_count
    recvs,          \* reflector: datagrams recvfrom returned
    lastRecv,       \* reflector: the last datagram on the wire and its sender
    sends,          \* reflector: datagrams sendto sent
    sendFails,      \* reflector: calls of sendto that raised
    lastSent        \* reflector: the last datagram sent and its destination

regionVars == <<order, region, extWrites, lastCall>>
daemonVars == <<pc, args, shmExists, count, idx, measured_count, probed,
                answered, cycleRegion, sleeps, exc, exitCode>>
burstVars == <<bpc, btarget, bcount, bi, rtts, sentSeqs, pending, echoOf,
               histSum, histN, lost, bret>>
reflVars == <<packet_count, recvs, lastRecv, sends, sendFails, lastSent>>
vars == <<entry, live, stopAt, running, closes, regionVars, daemonVars, burstVars,
          reflVars>>

PyNone == [tag |-> "None"]
PyFloat(n, d) == [tag |-> "float", num |-> n, den |-> d]

\* No signal was delivered yet.
NotStopped == [opened |-> FALSE, exc |-> "", bpc |-> "", sent |-> 0]

NoCall == [fn |-> "", index |-> 0, arg |-> << >>, res |-> Returned(<< >>)]
NoDatagram == [data |-> << >>, addr |-> << >>]

\* ------------------------------------------------------------------- Init
IdleRegion ==
    /\ order = "little" /\ region = << >> /\ extWrites = 0 /\ lastCall = NoCall
IdleDaemon ==
    /\ pc = "none" /\ args = [cycle |-> 0, packets |-> 0] /\ shmExists = FALSE
    /\ count = 0 /\ idx = 0 /\ measured_count = 0 /\ probed = {}
    /\ answered = {} /\ cycleRegion = << >> /\ sleeps = 0 /\ exc = ""
    /\ exitCode = -1
IdleBurst ==
    /\ bpc = "none" /\ btarget = << >> /\ bcount = 0 /\ bi = 0 /\ rtts = << >>
    /\ sentSeqs = << >> /\ pending = {} /\ echoOf = << >> /\ histSum = 0
    /\ histN = 0 /\ lost = << >> /\ bret = PyNone
IdleReflector ==
    /\ packet_count = 0 /\ recvs = 0 /\ lastRecv = NoDatagram /\ sends = 0
    /\ sendFails = 0 /\ lastSent = NoDatagram

\* main() is called with some command line, with the file present or not.
InitMain ==
    /\ entry = "main" /\ stopAt = NotStopped
    /\ order \in {"little", "big"}
    /\ region \in MainRegions(order)
    /\ extWrites = 0 /\ lastCall = NoCall
    /\ live \in {{}, Hosts}
    /\ pc = "start" /\ running = TRUE
    /\ args \in [cycle : ArgCycles, packets : ArgPackets]
    /\ shmExists \in BOOLEAN
    /\ count = 0 /\ idx = 0 /\ measured_count = 0 /\ probed = {}
    /\ answered = {} /\ cycleRegion = << >> /\ sleeps = 0 /\ exc = ""
    /\ exitCode = -1 /\ closes = 0
    /\ IdleBurst /\ IdleReflector

\* The codec functions are called on a region the routing process filled.
InitCodec ==
    /\ entry = "codec" /\ stopAt = NotStopped
    /\ order \in {"little", "big"}
    /\ region \in Regions(order)
    /\ extWrites = 0 /\ lastCall = NoCall
    /\ live = {} /\ running = TRUE /\ closes = 0
    /\ IdleDaemon /\ IdleBurst /\ IdleReflector

\* measure_twamp_light(target_ip, 862, count) is called.
InitBurst ==
    /\ entry = "measure_twamp_light" /\ stopAt = NotStopped
    /\ live \in SUBSET Hosts
    /\ btarget \in Hosts /\ bcount \in MinPackets..MaxBurst
    /\ bpc = "send" /\ bi = 0 /\ rtts = << >> /\ sentSeqs = << >>
    /\ pending = {} /\ echoOf = << >> /\ histSum = 0 /\ histN = 0
    /\ lost = << >> /\ bret = PyNone
    /\ running = TRUE /\ closes = 0
    /\ IdleRegion /\ IdleDaemon /\ IdleReflector

\* The reflector's main() has bound its socket.
InitReflector ==
    /\ entry = "reflector" /\ stopAt = NotStopped
    /\ pc = "loop" /\ running = TRUE /\ closes = 0 /\ live = {}
    /\ args = [cycle |-> 0, packets |-> 0] /\ shmExists = FALSE
    /\ count = 0 /\ idx = 0 /\ measured_count = 0 /\ probed = {}
    /\ answered = {} /\ cycleRegion = << >> /\ sleeps = 0 /\ exc = ""
    /\ exitCode = -1
    /\ IdleRegion /\ IdleBurst /\ IdleReflector

Init == InitMain \/ InitCodec \/ InitBurst \/ InitReflector

\* ------------------------------------------------- the routing process
\* The region is mapped and the routing process may write to it.
RegionShared ==
    \/ entry = "codec"
    \/ entry = "main" /\ pc \notin {"start", "open", "exit"}

\* The routing process stores a new nh_count.
ExtSetCount(c) ==
    /\ RegionShared /\ extWrites < MaxExtWrites
    /\ region' = [o \in 1..Len(region) |->
                    IF o > LockSize /\ o <= LockSize + 4
                    THEN FieldBytes(order, Num(c), 4)[o - LockSize]
                    ELSE region[o]]
    /\ region' # region
    /\ extWrites' = extWrites + 1
    /\ UNCHANGED <<entry, live, stopAt, running, closes, order, lastCall, daemonVars,
                   burstVars, reflVars>>

\* The routing process rewrites one entry.
ExtSetEntry(i, e) ==
    /\ RegionShared /\ extWrites < MaxExtWrites
    /\ region' = [o \in 1..Len(region) |->
                    IF o > EntryOffset(i) /\ o <= EntryOffset(i) + EntrySize
                    THEN e[o - EntryOffset(i)]
                    ELSE region[o]]
    /\ region' # region
    /\ extWrites' = extWrites + 1
    /\ UNCHANGED <<entry, live, stopAt, running, closes, order, lastCall, daemonVars,
                   burstVars, reflVars>>

\* ------------------------------------------------ direct calls of the codec
CallReadNexthop(i) ==
    /\ entry = "codec"
    /\ lastCall' = [fn |-> "read_nexthop", index |-> i, arg |-> << >>,
                    res |-> read_nexthop(region, i)]
    /\ UNCHANGED <<entry, live, stopAt, running, closes, order, region, extWrites,
                   daemonVars, burstVars, reflVars>>

CallWriteLatency(i, latency_ms, now) ==
    /\ entry = "codec"
    /\ LET w == write_nexthop_latency(region, i, latency_ms, now)
       IN  /\ region' = IF w.raised THEN region ELSE w.value
           /\ lastCall' = [fn |-> "write_nexthop_latency", index |-> i,
                           arg |-> latency_ms,
                           res |-> IF w.raised THEN w ELSE Returned(<< >>)]
    /\ UNCHANGED <<entry, live, stopAt, running, closes, order, extWrites,
                   daemonVars, burstVars, reflVars>>

CallMarkFailed(i) ==
    /\ entry = "codec"
    /\ LET w == mark_nexthop_failed(region, i)
       IN  /\ region' = IF w.raised THEN region ELSE w.value
           /\ lastCall' = [fn |-> "mark_nexthop_failed", index |-> i,
                           arg |-> << >>,
                           res |-> IF w.raised THEN w ELSE Returned(<< >>)]
    /\ UNCHANGED <<entry, live, stopAt, running, closes, order, extWrites,
                   daemonVars, burstVars, reflVars>>

\* --------------------------------------------------- measure_twamp_light
RECURSIVE sum(_)
sum(xs) == IF xs = << >> THEN 0 ELSE Head(xs) + sum(Tail(xs))

\* A result averaged over the packets sent instead of the samples collected.
burst_result_per_packet(samples, n) ==
    IF samples # << >> THEN PyFloat(sum(samples), n) ELSE PyNone

\* The value measure_twamp_light returns after the loop.
burst_result(samples, n) ==
    IF samples # << >> THEN PyFloat(sum(samples), Len(samples)) ELSE PyNone

\* int(latency + 0.5) of run_measurement_cycle.
round_ms(latency) == Num((2 * latency.num + latency.den) \div (2 * latency.den))

\* run_measurement_cycle after measure_twamp_light returned: the write, the
\* one-second sleep and the step to the next index; an exception of the codec
\* leaves the function.
AfterBurst(latency) ==
    \E now \in Times :
      LET w == IF latency # PyNone
               THEN write_nexthop_latency(region, idx, round_ms(latency), now)
               ELSE mark_nexthop_failed(region, idx)
      IN  IF w.raised
          THEN /\ exc' = w.exc /\ pc' = "finally"
               /\ UNCHANGED <<region, measured_count, idx>>
          ELSE /\ region' = w.value
               /\ measured_count' =
                      IF latency # PyNone THEN measured_count + 1 ELSE measured_count
               /\ idx' = idx + 1 /\ pc' = "entry"
               /\ exc' = exc

\* measure_twamp_light returns latency to its caller.
BurstReturn(latency) ==
    /\ bret' = latency /\ bpc' = "done"
    /\ IF entry = "main"
       THEN /\ AfterBurst(latency)
            /\ answered' = IF latency # PyNone THEN answered \cup {idx} ELSE answered
            /\ UNCHANGED <<cycleRegion, args, shmExists, count, probed, sleeps,
                           exitCode>>
       ELSE UNCHANGED <<region, daemonVars>>
    /\ UNCHANGED <<entry, live, stopAt, running, closes, order, extWrites, lastCall,
                   reflVars>>

\* Packet i + 1 is built and sent.
BurstSend ==
    /\ bpc = "send" /\ bi < bcount
    /\ sentSeqs' = Append(sentSeqs, bi + 1)
    /\ pending' = IF btarget \in live THEN pending \cup {bi + 1} ELSE pending
    /\ bpc' = "recv"
    /\ UNCHANGED <<btarget, bcount, bi, rtts, echoOf, histSum, histN, lost,
                   bret>>
    /\ UNCHANGED <<entry, live, stopAt, running, closes, regionVars, daemonVars, reflVars>>

\* A receive that keeps reading datagrams for the same packet until the
\* timeout instead of going on to the next packet.
BurstReply_drain(s, r) ==
    /\ bpc = "recv" /\ s \in pending
    /\ rtts' = Append(rtts, r)
    /\ echoOf' = Append(echoOf, s)
    /\ pending' = pending \ {s}
    /\ histSum' = histSum + r /\ histN' = histN + 1
    /\ bi' = bi /\ bpc' = "recv"
    /\ UNCHANGED <<btarget, bcount, sentSeqs, lost, bret>>
    /\ UNCHANGED <<entry, live, stopAt, running, closes, regionVars, daemonVars, reflVars>>

\* recvfrom returns a datagram, the echo of packet s, after r milliseconds.
BurstReply(s, r) ==
    /\ bpc = "recv" /\ s \in pending
    /\ rtts' = Append(rtts, r)
    /\ echoOf' = Append(echoOf, s)
    /\ pending' = pending \ {s}
    /\ histSum' = histSum + r /\ histN' = histN + 1
    /\ bi' = bi + 1 /\ bpc' = "send"
    /\ UNCHANGED <<btarget, bcount, sentSeqs, lost, bret>>
    /\ UNCHANGED <<entry, live, stopAt, running, closes, regionVars, daemonVars, reflVars>>

\* A timeout that leaves the loop (break in place of continue).
BurstTimeout_abort ==
    /\ bpc = "recv"
    /\ lost' = Append(lost, bi + 1)
    /\ bi' = bcount /\ bpc' = "send"
    /\ UNCHANGED <<btarget, bcount, rtts, sentSeqs, pending, echoOf, histSum,
                   histN, bret>>
    /\ UNCHANGED <<entry, live, stopAt, running, closes, regionVars, daemonVars, reflVars>>

\* recvfrom times out.
BurstTimeout ==
    /\ bpc = "recv"
    /\ lost' = Append(lost, bi + 1)
    /\ bi' = bi + 1 /\ bpc' = "send"
    /\ UNCHANGED <<btarget, bcount, rtts, sentSeqs, pending, echoOf, histSum,
                   histN, bret>>
    /\ UNCHANGED <<entry, live, stopAt, running, closes, regionVars, daemonVars, reflVars>>

\* sendto or recvfrom raises another exception: the outer handler returns None.
BurstSocketError ==
    /\ bpc \in {"send", "recv"} /\ bi < bcount
    /\ BurstReturn(PyNone)
    /\ UNCHANGED <<btarget, bcount, bi, rtts, sentSeqs, pending, echoOf,
                   histSum, histN, lost>>

\* The loop is over: the socket is closed and the result returned.
BurstFinish ==
    /\ bpc = "send" /\ bi = bcount
    /\ BurstReturn(burst_result(rtts, bcount))
    /\ UNCHANGED <<btarget, bcount, bi, rtts, sentSeqs, pending, echoOf,
                   histSum, histN, lost>>

\* ------------------------------------------------------------ the daemon
\* A start that does not validate the cycle interval.
MainStart_no_cycle_check ==
    /\ entry = "main" /\ pc = "start"
    /\ IF \/ args.packets < MinPackets
          \/ args.packets > MaxPackets
       THEN exitCode' = 1 /\ pc' = "exit"
       ELSE exitCode' = exitCode /\ pc' = "open"
    /\ UNCHANGED <<cycleRegion, args, shmExists, count, idx, measured_count, probed,
                   answered, sleeps, exc>>
    /\ UNCHANGED <<entry, live, stopAt, running, closes, regionVars, burstVars, reflVars>>

\* main: the command line is validated and the signal handlers installed.
MainStart ==
    /\ entry = "main" /\ pc = "start"
    /\ IF \/ args.cycle < MinCycle
          \/ args.packets < MinPackets
          \/ args.packets > MaxPackets
       THEN exitCode' = 1 /\ pc' = "exit"
       ELSE exitCode' = exitCode /\ pc' = "open"
    /\ UNCHANGED <<cycleRegion, args, shmExists, count, idx, measured_count, probed,
                   answered, sleeps, exc>>
    /\ UNCHANGED <<entry, live, stopAt, running, closes, regionVars, burstVars, reflVars>>

\* main: open_shared_memory returns the mapping or (None, None).
MainOpen ==
    /\ entry = "main" /\ pc = "open"
    /\ IF shmExists
       THEN exitCode' = exitCode /\ pc' = "loop"
       ELSE exitCode' = 1 /\ pc' = "exit"
    /\ UNCHANGED <<cycleRegion, args, shmExists, count, idx, measured_count, probed,
                   answered, sleeps, exc>>
    /\ UNCHANGED <<entry, live, stopAt, running, closes, regionVars, burstVars, reflVars>>

\* main: while running.
MainLoop ==
    /\ entry = "main" /\ pc = "loop"
    /\ pc' = IF running THEN "cycle" ELSE "finally"
    /\ UNCHANGED <<cycleRegion, args, shmExists, count, idx, measured_count, probed,
                   answered, sleeps, exc, exitCode>>
    /\ UNCHANGED <<entry, live, stopAt, running, closes, regionVars, burstVars, reflVars>>

\* run_measurement_cycle: the count is read once, before the loop.
CycleStart ==
    /\ entry = "main" /\ pc = "cycle"
    /\ count' = read_nexthop_count(order, region)
    /\ idx' = 0 /\ measured_count' = 0 /\ probed' = {} /\ answered' = {}
    /\ cycleRegion' = region
    /\ pc' = IF count' = 0 THEN "after" ELSE "entry"
    /\ UNCHANGED <<args, shmExists, sleeps, exc, exitCode>>
    /\ UNCHANGED <<entry, live, stopAt, running, closes, regionVars, burstVars, reflVars>>

\* run_measurement_cycle: one pass of the for loop up to the call of
\* measure_twamp_light.
CycleEntry ==
    /\ entry = "main" /\ pc = "entry"
    /\ IF idx >= count
       THEN /\ pc' = "after"
            /\ UNCHANGED <<idx, probed, exc, burstVars>>
       ELSE LET nh == read_nexthop(region, idx)
            IN  IF nh.raised
                THEN /\ exc' = nh.exc /\ pc' = "finally"
                     /\ UNCHANGED <<idx, probed, burstVars>>
                ELSE IF nh.value.active = Num(0)
                THEN /\ idx' = idx + 1 /\ pc' = pc
                     /\ UNCHANGED <<probed, exc, burstVars>>
                ELSE /\ btarget' = ip_to_string(nh.value.addr)
                     /\ bcount' = args.packets
                     /\ bpc' = "send" /\ bi' = 0 /\ rtts' = << >>
                     /\ sentSeqs' = << >> /\ pending' = {} /\ echoOf' = << >>
                     /\ histSum' = 0 /\ histN' = 0 /\ lost' = << >>
                     /\ bret' = PyNone
                     /\ probed' = probed \cup {idx}
                     /\ pc' = "probe"
                     /\ UNCHANGED <<idx, exc>>
    /\ UNCHANGED <<cycleRegion, args, shmExists, count, measured_count, answered, sleeps,
                   exitCode>>
    /\ UNCHANGED <<entry, live, stopAt, running, closes, regionVars, reflVars>>

\* main: after the cycle, the sleep loop is entered if still running.
AfterCycle ==
    /\ entry = "main" /\ pc = "after"
    /\ IF running THEN sleeps' = 0 /\ pc' = "sleep"
                  ELSE sleeps' = sleeps /\ pc' = "loop"
    /\ UNCHANGED <<cycleRegion, args, shmExists, count, idx, measured_count, probed,
                   answered, exc, exitCode>>
    /\ UNCHANGED <<entry, live, stopAt, running, closes, regionVars, burstVars, reflVars>>

\* A sleep loop that does not look at running: all args.cycle passes are slept.
SleepTick_no_flag ==
    /\ entry = "main" /\ pc = "sleep"
    /\ pc' = IF sleeps >= args.cycle THEN "loop" ELSE "sleeping"
    /\ sleeps' = sleeps
    /\ UNCHANGED <<cycleRegion, args, shmExists, count, idx, measured_count, probed,
                   answered, exc, exitCode>>
    /\ UNCHANGED <<entry, live, stopAt, running, closes, regionVars, burstVars, reflVars>>

\* main: the top of one pass of the sleep loop: the loop ends after args.cycle
\* passes or when running is false, otherwise time.sleep(1) is called.
SleepTick ==
    /\ entry = "main" /\ pc = "sleep"
    /\ pc' = IF sleeps >= args.cycle \/ ~running THEN "loop" ELSE "sleeping"
    /\ sleeps' = sleeps
    /\ UNCHANGED <<cycleRegion, args, shmExists, count, idx, measured_count, probed,
                   answered, exc, exitCode>>
    /\ UNCHANGED <<entry, live, stopAt, running, closes, regionVars, burstVars, reflVars>>

\* main: time.sleep(1) returns (a handled signal does not cut it short).
SleepWake ==
    /\ entry = "main" /\ pc = "sleeping"
    /\ sleeps' = sleeps + 1 /\ pc' = "sleep"
    /\ UNCHANGED <<cycleRegion, args, shmExists, count, idx, measured_count, probed,
                   answered, exc, exitCode>>
    /\ UNCHANGED <<entry, live, stopAt, running, closes, regionVars, burstVars, reflVars>>

\* main: the finally block, then return 0 or the uncaught exception.
MainFinally ==
    /\ entry = "main" /\ pc = "finally"
    /\ closes' = closes + 1
    /\ exitCode' = IF exc = "" THEN 0 ELSE 1
    /\ pc' = "exit"
    /\ UNCHANGED <<cycleRegion, args, shmExists, count, idx, measured_count, probed,
                   answered, sleeps, exc>>
    /\ UNCHANGED <<entry, live, stopAt, running, regionVars, burstVars, reflVars>>

\* SIGINT or SIGTERM is delivered to the daemon.
signal_handler ==
    /\ IF entry = "main" THEN pc \notin {"start", "exit"}
       ELSE entry = "measure_twamp_light" /\ bpc # "done"
    /\ running /\ running' = FALSE
    /\ stopAt' = [opened |-> (entry = "main" /\ pc # "open"), exc |-> exc,
                  bpc |-> bpc, sent |-> Len(sentSeqs)]
    /\ UNCHANGED <<entry, live, closes, regionVars, daemonVars, burstVars, reflVars>>

\* ---------------------------------------------------------- the reflector
Datagram(n) == [j \in 1..n |-> (j * 3) % 256]

\* Datagrams that reach the reflector's port, and their senders.
Datagrams ==
    {Datagram(n) : n \in {MinProbeLen \div 2, MinProbeLen - 1, MinProbeLen,
                          RecvBufSize + 1}}
Peers == {<<"192.0.2.1", 40000>>, <<"192.0.2.2", 40001>>}

\* main: while running.
ReflLoop ==
    /\ entry = "reflector" /\ pc = "loop"
    /\ pc' = IF running THEN "recv" ELSE "finally"
    /\ UNCHANGED <<cycleRegion, args, shmExists, count, idx, measured_count, probed,
                   answered, sleeps, exc, exitCode>>
    /\ UNCHANGED <<entry, live, stopAt, running, closes, regionVars, burstVars, reflVars>>

\* A length test that also drops a datagram of exactly 20 bytes.
TooShort_inclusive(data) == Len(data) <= MinProbeLen

\* A datagram the reflector does not take for a probe.
TooShort(data) == Len(data) < MinProbeLen

\* recvfrom(1024) returns the datagram d of sender a; sendOk tells whether
\* sendto succeeds or raises.
ReflDatagram(d, a, sendOk) ==
    /\ entry = "reflector" /\ pc = "recv" /\ recvs < MaxReflected
    /\ recvs' = recvs + 1
    /\ lastRecv' = [data |-> d, addr |-> a]
    /\ LET data == SubSeq(d, 1, Min(Len(d), RecvBufSize))
       IN  IF TooShort(data)
           THEN UNCHANGED <<packet_count, sends, sendFails, lastSent>>
           ELSE /\ packet_count' = packet_count + 1
                /\ IF sendOk
                   THEN /\ sends' = sends + 1
                        /\ lastSent' = [data |-> data, addr |-> a]
                        /\ sendFails' = sendFails
                   ELSE /\ sendFails' = sendFails + 1
                        /\ UNCHANGED <<sends, lastSent>>
    /\ pc' = "loop"
    /\ UNCHANGED <<cycleRegion, args, shmExists, count, idx, measured_count, probed,
                   answered, sleeps, exc, exitCode>>
    /\ UNCHANGED <<entry, live, stopAt, running, closes, regionVars, burstVars>>

\* recvfrom times out after one second.
ReflTimeout ==
    /\ entry = "reflector" /\ pc = "recv"
    /\ pc' = "loop"
    /\ UNCHANGED <<cycleRegion, args, shmExists, count, idx, measured_count, probed,
                   answered, sleeps, exc, exitCode>>
    /\ UNCHANGED <<entry, live, stopAt, running, closes, regionVars, burstVars, reflVars>>

\* An error that is not caught inside the loop and so ends it.
ReflError_leaves_loop ==
    /\ entry = "reflector" /\ pc = "recv"
    /\ pc' = "finally"
    /\ UNCHANGED <<cycleRegion, args, shmExists, count, idx, measured_count,
                   probed, answered, sleeps, exc, exitCode>>
    /\ UNCHANGED <<entry, live, stopAt, running, closes, regionVars, burstVars, reflVars>>

\* recvfrom raises another exception: it is printed and the loop goes on.
ReflError ==
    /\ entry = "reflector" /\ pc = "recv"
    /\ pc' = "loop"
    /\ UNCHANGED <<cycleRegion, args, shmExists, count, idx, measured_count,
                   probed, answered, sleeps, exc, exitCode>>
    /\ UNCHANGED <<entry, live, stopAt, running, closes, regionVars, burstVars, reflVars>>

\* main: the finally block closes the socket.
ReflFinally ==
    /\ entry = "reflector" /\ pc = "finally"
    /\ closes' = closes + 1 /\ exitCode' = 0 /\ pc' = "exit"
    /\ UNCHANGED <<cycleRegion, args, shmExists, count, idx, measured_count, probed,
                   answered, sleeps, exc>>
    /\ UNCHANGED <<entry, live, stopAt, running, regionVars, burstVars, reflVars>>

\* SIGINT or SIGTERM is delivered to the reflector.
reflector_signal_handler ==
    /\ entry = "reflector" /\ pc # "exit"
    /\ running /\ running' = FALSE
    /\ stopAt' = [opened |-> TRUE, exc |-> exc, bpc |-> bpc, sent |-> sends]
    /\ UNCHANGED <<entry, live, closes, regionVars, daemonVars, burstVars, reflVars>>

\* ------------------------------------------------------------------- Next
NextExternal ==
    \/ \E c \in 0..NumSlots : ExtSetCount(c)
    \/ \E i \in 0..(NumSlots - 1), k \in 1..3 : ExtSetEntry(i, EntryImages(order)[k])

NextCodec ==
    \/ \E i \in 0..(NumSlots - 1) : CallReadNexthop(i)
    \/ \E i \in 0..(NumSlots - 1), l \in Latencies, now \in Times :
          CallWriteLatency(i, l, now)
    \/ \E i \in 0..(NumSlots - 1) : CallMarkFailed(i)

NextBurst ==
    \/ BurstSend
    \/ \E s \in 1..MaxBurst, r \in RttSamples : BurstReply(s, r)
    \/ BurstTimeout
    \/ BurstSocketError
    \/ BurstFinish

NextMain ==
    \/ MainStart
    \/ MainOpen
    \/ MainLoop
    \/ CycleStart
    \/ CycleEntry
    \/ AfterCycle
    \/ SleepTick
    \/ SleepWake
    \/ MainFinally
    \/ signal_handler

NextReflector ==
    \/ ReflLoop
    \/ \E d \in Datagrams, a \in Peers, sendOk \in BOOLEAN : ReflDatagram(d, a, sendOk)
    \/ ReflTimeout
    \/ ReflError
    \/ ReflFinally
    \/ reflector_signal_handler

Next == NextExternal \/ NextCodec \/ NextBurst \/ NextMain \/ NextReflector

\* Every entry point.
Spec == Init /\ [][Next]_vars

\* The codec functions, called on a region the routing process also writes.
SpecCodec == InitCodec /\ [][NextExternal \/ NextCodec]_vars

\* One call of measure_twamp_light.
SpecBurst == InitBurst /\ [][NextBurst]_vars

\* The reflector.
SpecReflector == InitReflector /\ [][NextReflector]_vars

\* The reflector as a running process: it executes its next statement, and
\* recvfrom returns within its one-second timeout.
SpecReflectorLive ==
    /\ SpecReflector
    /\ WF_vars(ReflLoop)
    /\ WF_vars(ReflTimeout \/ ReflError
                \/ \E d \in Datagrams, a \in Peers, sendOk \in BOOLEAN :
                      ReflDatagram(d, a, sendOk))
    /\ WF_vars(ReflFinally)

\* ================================================================= claims
\* The entry at index decoded independently of read_nexthop, under the layout
\* address(4) | active(1) | measured(1) | reserved(2) | latencyMs(4) |
\* lastUpdated(8), big-endian, from the first byte of the slot.
SlotBytes(shm, index) ==
    [o \in 1..EntrySize |-> shm[LockSize + HeaderRest + index * EntrySize + o]]

StoredEntry(shm, index) ==
    LET b == SlotBytes(shm, index)
    IN  [addr |-> FromBytesBE(SubSeq(b, 1, 4)),
         active |-> Num(b[5]),
         measured |-> Num(b[6]),
         latency_ms |-> FromBytesBE(SubSeq(b, 9, 12)),
         last_updated |-> FromBytesBE(SubSeq(b, 13, 20))]

\* The count stored in the header, read byte by byte in the host's order.
StoredCount(shm) ==
    IF order = "big"
    THEN shm[LockSize + 3] * 256 + shm[LockSize + 4]
    ELSE shm[LockSize + 2] * 256 + shm[LockSize + 1]

\* This step is a direct call of the codec function fn on an index below count.
CodecCall(fn) ==
    /\ entry = "codec" /\ extWrites' = extWrites
    /\ lastCall'.fn = fn
    /\ lastCall'.index < StoredCount(region)

\* C1: for every index below count, read_nexthop succeeds and returns the five
\* fields equal to the values stored in the 24-byte slot at 52 + index * 24.
C1_ReadEntryReturnsStoredFields ==
    [][CodecCall("read_nexthop") =>
          /\ ~lastCall'.res.raised
          /\ lastCall'.res.value = StoredEntry(region, lastCall'.index)]_vars

\* C2: for every index i below count and every 32-bit L, write_nexthop_latency
\* completes and a following read_nexthop(i) yields measured = 1 and
\* latency_ms = L, with addr and active as before the write.
C2_WriteLatencyThenRead ==
    [][CodecCall("write_nexthop_latency") =>
          /\ ~lastCall'.res.raised
          /\ LET r == read_nexthop(region', lastCall'.index)
             IN  /\ ~r.raised
                 /\ r.value.measured = Num(1)
                 /\ r.value.latency_ms = lastCall'.arg
                 /\ r.value.addr = StoredEntry(region, lastCall'.index).addr
                 /\ r.value.active = StoredEntry(region, lastCall'.index).active]_vars

\* C3: for every index i below count, mark_nexthop_failed completes and a
\* following read_nexthop(i) yields measured = 0 and latency_ms = 0xFFFFFFFF,
\* with addr, active and last_updated as before the call.
C3_MarkFailedThenRead ==
    [][CodecCall("mark_nexthop_failed") =>
          /\ ~lastCall'.res.raised
          /\ LET r == read_nexthop(region', lastCall'.index)
                 before == StoredEntry(region, lastCall'.index)
             IN  /\ ~r.raised
                 /\ r.value.measured = Num(0)
                 /\ r.value.latency_ms = UINT32_MAX
                 /\ r.value.addr = before.addr
                 /\ r.value.active = before.active
                 /\ r.value.last_updated = before.last_updated]_vars

\* The index a write of this step is aimed at: the argument of a direct call,
\* or the cycle's i.
WriteTarget == IF entry = "codec" THEN lastCall'.index ELSE idx

\* C4: a step of the program (any step but a write of the routing process)
\* changes no byte outside the slot of the entry that write_nexthop_latency or
\* mark_nexthop_failed is called for: the lock, count, sequence, padding and
\* every other slot keep their bytes.
C4_WritesStayInSlot ==
    [][extWrites' = extWrites =>
          /\ Len(region') = Len(region)
          /\ \A o \in 1..Len(region) :
                region'[o] # region[o] =>
                   /\ o > EntryOffset(WriteTarget)
                   /\ o <= EntryOffset(WriteTarget) + EntrySize]_vars

\* C4 witness: both writers were called on a mapped region, one of them after
\* the routing process had written to it.
C4_Witness ==
    /\ entry = "codec" /\ extWrites > 0
    /\ lastCall.fn = "mark_nexthop_failed" /\ lastCall.index = 1
    /\ lastCall.res.raised

\* A measurement cycle over a table of at least one entry is over (it returned
\* or an exception left it) and the routing process has not written since the
\* daemon started.
CycleOver ==
    /\ entry = "main" /\ count >= 1 /\ extWrites = 0
    /\ \/ pc = "after"
       \/ exc # "" /\ pc \in {"finally", "exit"}

\* C7: in one cycle an entry that is inactive when read is neither probed nor
\* written (its 24 bytes keep their values), and an active entry is probed and,
\* when its burst collected a reply, ends the cycle with measured = 1.
C7_CycleSkipsInactiveMeasuresActive ==
    CycleOver =>
       \A i \in 0..(count - 1) :
          IF StoredEntry(cycleRegion, i).active = Num(0)
          THEN /\ i \notin probed
               /\ SlotBytes(region, i) = SlotBytes(cycleRegion, i)
          ELSE /\ i \in probed
               /\ i \in answered => StoredEntry(region, i).measured = Num(1)

\* Entry i of the table is active and no reflector answers at its address, so
\* that every packet of a burst to it times out.
DeadNexthop(i) ==
    /\ StoredEntry(cycleRegion, i).active # Num(0)
    /\ ToBytesBE(StoredEntry(cycleRegion, i).addr, 4) \notin live

\* C8: a burst that fails completely for entry i does not abort the cycle: the
\* cycle returns normally, entry i is marked failed, and every later active
\* entry is probed.
C8_FailedBurstDoesNotAbortCycle ==
    CycleOver =>
       \A i \in 0..(count - 1) :
          DeadNexthop(i) =>
             /\ exc = "" /\ pc = "after"
             /\ i \in probed
             /\ StoredEntry(region, i).measured = Num(0)
             /\ StoredEntry(region, i).latency_ms = UINT32_MAX
             /\ \A j \in (i + 1)..(count - 1) :
                   StoredEntry(cycleRegion, j).active # Num(0) => j \in probed

\* A call of measure_twamp_light has returned without a socket error.
BurstDone == bpc = "done" /\ bi = bcount

PyTuple(a, b) == [tag |-> "tuple", items |-> <<a, b>>]

\* C9 as stated: None exactly when no sample was collected, otherwise the pair
\* (mean of the samples, (packetCount - samples) / packetCount).
C9_ReturnsMeanAndLoss ==
    BurstDone =>
       /\ (bret = PyNone) <=> (histN = 0)
       /\ histN > 0 =>
             bret = PyTuple(PyFloat(histSum, histN), PyFloat(bcount - histN, bcount))

\* C9: for every packet count and every pattern of replies and timeouts without
\* socket error, measure_twamp_light returns None exactly when no sample was
\* collected, and otherwise the arithmetic mean of the samples alone (a number,
\* not a pair: the loss is only printed).
C9_ReturnsMeanOrNone ==
    BurstDone =>
       /\ (bret = PyNone) <=> (histN = 0)
       /\ histN > 0 => bret = PyFloat(histSum, histN)

\* C9 witness: a burst of three packets ended with two samples and one loss.
C9_Witness ==
    /\ entry = "measure_twamp_light" /\ BurstDone
    /\ bcount = 3 /\ histN = 2 /\ bret # PyNone

\* This step is recvfrom returning a datagram to the listening reflector.
Received == entry = "reflector" /\ recvs' = recvs + 1

\* C10 as stated: a datagram of at least 20 bytes causes exactly one datagram
\* with the identical payload to be sent to its sender; a shorter one causes no
\* datagram and leaves the counter unchanged.
C10_EchoesEveryProbe ==
    [][Received =>
          IF Len(lastRecv'.data) >= MinProbeLen
          THEN /\ sends' = sends + 1
               /\ lastSent' = lastRecv'
          ELSE /\ sends' = sends
               /\ packet_count' = packet_count]_vars

\* The first n bytes of a datagram.
FirstBytes(d, n) == [j \in 1..(IF Len(d) < n THEN Len(d) ELSE n) |-> d[j]]

\* C10: a datagram of at least 20 bytes is counted and answered by exactly one
\* call of sendto, to its sender's address and port, with the received bytes,
\* which are the datagram's first 1024; one datagram is sent unless that call
\* raises, and then none is. A shorter datagram causes no datagram and leaves
\* the counter unchanged.
C10_EchoesReceivedBytes ==
    [][Received =>
          IF Len(lastRecv'.data) >= MinProbeLen
          THEN /\ packet_count' = packet_count + 1
               /\ \/ /\ sends' = sends + 1 /\ sendFails' = sendFails
                     /\ lastSent' = [data |-> FirstBytes(lastRecv'.data, RecvBufSize),
                                     addr |-> lastRecv'.addr]
                  \/ /\ sends' = sends /\ sendFails' = sendFails + 1
                     /\ lastSent' = lastSent
          ELSE /\ sends' = sends /\ sendFails' = sendFails
               /\ lastSent' = lastSent
               /\ packet_count' = packet_count]_vars

\* C10 witness: a 20-byte probe was echoed and another datagram's sendto raised.
C10_Witness ==
    /\ entry = "reflector" /\ sends = 1 /\ sendFails = 1
    /\ Len(lastSent.data) = MinProbeLen /\ packet_count = 2

\* C11: once the shutdown flag was set after the region was opened (and before
\* anything else ended the loop), the daemon starts no new measurement cycle,
\* closes the region exactly once, exits with code 0, and changes no byte of
\* the region after the close.
C11_ShutdownClosesOnceExitsZero ==
    [][(entry = "main" /\ ~running /\ stopAt.opened /\ stopAt.exc = "") =>
          /\ ~(pc = "loop" /\ pc' = "cycle")
          /\ closes' <= 1
          /\ (pc' = "exit" => closes' = 1 /\ exitCode' = 0)
          /\ (closes >= 1 => region' = region)]_vars

\* The flag was set while the daemon was in its loop or in a probe burst.
StoppedInFlight ==
    /\ ~running
    /\ \/ entry = "main" /\ stopAt.opened
       \/ entry = "measure_twamp_light"

\* C12 as stated: after the flag is set, during the sleep or in the middle of a
\* cycle or burst, the daemon performs at most one further sleep increment or
\* one further packet exchange and probes no further next-hop.
C12_StopsWithinOneStep ==
    [][StoppedInFlight /\ extWrites' = extWrites =>
          /\ (pc = "sleep" => pc' = "loop")
          /\ (sleeps' # sleeps => pc = "sleeping")
          /\ Len(sentSeqs') <= stopAt.sent + 1
          /\ probed' = probed]_vars

\* C12: the flag is read at the top of every pass of the sleep loop and at the
\* test of the outer loop before every cycle, and nowhere else. After it is set
\* the sleep loop ends at its next pass (only the time.sleep(1) in progress is
\* finished) and no cycle starts; a cycle in progress goes on with its own
\* steps, and a burst in flight still sends each of its remaining packets, all
\* bcount of them unless a socket error ends it (every step of the daemon, the
\* routing process's writes aside).
C12_PolledAtSleepAndLoopOnly ==
    [][StoppedInFlight /\ extWrites' = extWrites =>
          /\ (pc = "sleep" => pc' = "loop")
          /\ (pc = "loop" => pc' = "finally")
          /\ (sleeps' # sleeps => pc = "sleeping" /\ pc' = "sleep")
          /\ (pc \in {"cycle", "entry"} => pc' \in {"entry", "after", "finally"})
          /\ (bpc = "send" /\ bi < bcount /\ bpc' # "done" =>
                 sentSeqs' = Append(sentSeqs, bi + 1))
          /\ (bpc' = "done" /\ bi' = bcount => Len(sentSeqs') = bcount)]_vars

\* C12 witness: the flag was set while a burst of three packets waited for the
\* echo of its first packet, and the burst sent the other two.
C12_Witness ==
    /\ entry = "measure_twamp_light" /\ ~running
    /\ stopAt.bpc = "recv" /\ stopAt.sent = 1
    /\ bpc = "done" /\ bi = bcount /\ Len(sentSeqs) = 3

\* The daemon's start fails: a cycle interval below 10, a packet count outside
\* 1..100, or a shared region that cannot be opened.
StartupFails ==
    /\ entry = "main"
    /\ \/ args.cycle < MinCycle
       \/ args.packets < MinPackets
       \/ args.packets > MaxPackets
       \/ ~shmExists

\* C13: when startup fails the daemon goes from its start to its exit with code
\* 1 and never enters the measurement loop: no cycle reads the table, no probe
\* packet is sent, no byte of the region changes, nothing is closed, and until
\* the exit the next startup step can always be taken.
C13_FailedStartupExitsOne ==
    [][StartupFails =>
          /\ pc' \in {"start", "open", "exit"}
          /\ (pc' = "exit" => exitCode' = 1)
          /\ (pc # "exit" => ENABLED (MainStart \/ MainOpen))
          /\ region' = region /\ cycleRegion' = << >>
          /\ sentSeqs' = << >> /\ probed' = {} /\ closes' = 0]_vars

\* C13 witness: the arguments were valid but the region could not be opened, and
\* the daemon has exited with code 1.
C13_Witness ==
    /\ entry = "main" /\ pc = "exit" /\ exitCode = 1 /\ closes = 0
    /\ ~shmExists /\ args.cycle >= MinCycle
    /\ args.packets >= MinPackets /\ args.packets <= MaxPackets

\* The sequence 1, 2, ..., n.
Upto(n) == [j \in 1..n |-> j]

\* No socket error has ended the burst.
NoSocketError == bpc # "done" \/ bi = bcount

\* C14: in a burst of bcount packets without socket error a timeout is recorded
\* as a loss and the burst goes on: the packets sent carry 1, 2, ... in order,
\* each send is followed by exactly one receive that ends on a reply or on the
\* timeout before the next send, a further step is always possible until the
\* burst returns, and it returns after bcount packets with
\* samples + losses = bcount.
C14_TimeoutDoesNotAbortBurst ==
    entry = "measure_twamp_light" /\ NoSocketError =>
       /\ sentSeqs = Upto(Len(sentSeqs))
       /\ Len(sentSeqs) = (IF bpc = "recv" THEN bi + 1 ELSE bi)
       /\ Len(rtts) + Len(lost) = bi /\ bi <= bcount
       /\ (bpc = "done" => Len(sentSeqs) = bcount /\ Len(rtts) + Len(lost) = bcount)
       /\ (bpc # "done" => ENABLED (BurstSend \/ BurstTimeout \/ BurstFinish))

\* C14 witness: the first two packets of a burst of three timed out, the third
\* was answered, and the burst has returned.
C14_Witness ==
    /\ entry = "measure_twamp_light" /\ bpc = "done" /\ bcount = 3
    /\ lost = <<1, 2>> /\ Len(rtts) = 1 /\ sentSeqs = <<1, 2, 3>>

\* C15: a socket error other than a receive timeout at packet i ends the burst:
\* no packet is sent after i and measure_twamp_light returns None, whatever
\* samples were collected before; and the cycle's step on a None result,
\* mark_nexthop_failed on the entry it is measuring, completes and leaves the
\* entry marked failed (measured = 0, latency_ms = 0xFFFFFFFF).
C15_SocketErrorMarksFailed ==
    /\ (entry = "measure_twamp_light" /\ bpc = "done" /\ bi < bcount) =>
          /\ bret = PyNone
          /\ Len(sentSeqs) <= bi + 1
    /\ (entry = "main" /\ pc = "entry" /\ idx < count
          /\ StoredEntry(region, idx).active # Num(0)) =>
          LET w == mark_nexthop_failed(region, idx)
          IN  /\ ~w.raised
              /\ StoredEntry(w.value, idx).measured = Num(0)
              /\ StoredEntry(w.value, idx).latency_ms = UINT32_MAX

\* The indexes below count whose entry was active when the cycle began.
ActiveAtStart == {i \in 0..(count - 1) : StoredEntry(cycleRegion, i).active # Num(0)}

\* C16: a measurement cycle goes through the indexes 0..count-1 to the end, and
\* by then the entries probed are exactly the active ones and each of them has
\* got its write: measured = 1 when its burst returned a latency
\* (write_nexthop_latency), measured = 0 and latency_ms = 0xFFFFFFFF when it
\* returned None (mark_nexthop_failed); measured_count counts the former.
C16_EachActiveEntryProbedAndWritten ==
    CycleOver =>
       /\ exc = "" /\ idx = count
       /\ probed = ActiveAtStart
       /\ measured_count = Cardinality(answered)
       /\ \A i \in probed :
             IF i \in answered
             THEN StoredEntry(region, i).measured = Num(1)
             ELSE /\ StoredEntry(region, i).measured = Num(0)
                  /\ StoredEntry(region, i).latency_ms = UINT32_MAX

\* Positions in a slot of the fields the core does not own: address (4 bytes),
\* active (1 byte) and the 2 reserved bytes.
ForeignFields == {1, 2, 3, 4, 5, 7, 8}

Listening == entry = "reflector" /\ pc \in {"loop", "recv"}
Stopped == entry = "reflector" /\ pc \in {"finally", "exit"}

\* C18: the reflector is listening or stopped. While no shutdown was requested
\* every step (a timeout, a receive or send error, an echo) leaves it listening;
\* it leaves listening only with the flag set; once stopped it stays stopped,
\* echoes and counts nothing more and closes its socket exactly once; and a
\* requested shutdown leads to the stopped reflector with its socket closed.
C18_ListeningUntilShutdown ==
    /\ [][/\ (Listening /\ running' => Listening')
          /\ (Listening /\ Stopped' => ~running)
          /\ (Stopped => /\ Stopped'
                         /\ sends' = sends /\ packet_count' = packet_count)
          /\ closes' <= 1
          /\ (pc' = "exit" => closes' = 1)]_vars
    /\ ((entry = "reflector" /\ ~running) ~> (pc = "exit" /\ closes = 1))

\* C18 witness: a sendto raised, a datagram was echoed, and after the shutdown
\* request the reflector has stopped and closed its socket.
C18_Witness ==
    /\ entry = "reflector" /\ pc = "exit" /\ closes = 1 /\ ~running
    /\ sendFails = 1 /\ sends = 1 /\ recvs = 2
    /\ lastSent.data = FirstBytes(lastRecv.data, RecvBufSize)
    /\ lastSent.addr = lastRecv.addr

\* This step records an RTT sample.
SampleTaken == entry = "measure_twamp_light" /\ Len(rtts') = Len(rtts) + 1

\* C20 as stated: the sample recorded at iteration i comes from the echo of the
\* packet with sequence number i sent in that iteration, never from the late
\* echo of an earlier packet.
C20_SampleIsEchoOfItsPacket ==
    [][SampleTaken => echoOf'[Len(echoOf')] = bi + 1]_vars

\* C20: the sample recorded at iteration i comes from the one datagram recvfrom
\* returns while the burst waits for packet i; its sequence number is not
\* compared with i, so it is the echo of packet i or of an earlier packet of the
\* burst that was not received before. One sample at most is recorded per
\* iteration, so the samples never exceed the packets sent.
C20_SampleIsFirstDatagramReceived ==
    [][SampleTaken =>
          /\ bpc = "recv" /\ bi' = bi + 1 /\ bpc' = "send"
          /\ echoOf'[Len(echoOf')] \in 1..(bi + 1)
          /\ echoOf'[Len(echoOf')] \in pending \ pending'
          /\ Len(rtts') <= bi' /\ Len(rtts') <= Len(sentSeqs')]_vars

\* C20 witness: in a burst of two packets the wait for packet 1 timed out and
\* the echo of packet 1 was taken as the sample of packet 2.
C20_Witness ==
    /\ entry = "measure_twamp_light" /\ bpc = "done" /\ bcount = 2
    /\ lost = <<1>> /\ echoOf = <<1>> /\ Len(rtts) = 1 /\ bret # PyNone

=============================================================================
